---- MODULE Spec2Model ----
(***************************************************************************)
(* Model of composite-service: the orchestrator (CompositeService.ts) and  *)
(* the per-service supervisor (ComposedService).  JavaScript runs one task *)
(* at a time: an event handler (signal, child-process event, timer, user   *)
(* promise settling) runs first, then the promise continuations it made    *)
(* runnable, one after the other in queue order.  Continuations are the    *)
(* "urgent" steps of the model: no event is taken while one of them is     *)
(* runnable, and the runnable ones are taken in one fixed order.           *)
(***************************************************************************)
EXTENDS Integers, Sequences, FiniteSets, TLC

\* ---- bounds ----
MaxCrashes == 1      \* crashes (unrequested exits) handled in one run, all services

\* ---- the configured service graph (01-http.test.ts shape, plus web -> api) ----
Services == {"api", "web", "gateway"}

Dependencies ==
  [s \in Services |->
     CASE s = "api" -> {}
       [] s = "web" -> {"api"}
       [] s = "gateway" -> {"api", "web"}]

\* services whose config.dependencies includes s
DependentsTable == [s \in Services |-> {d \in Services : s \in Dependencies[d]}]
Dependents(s) == DependentsTable[s]

RECURSIVE TransitiveDependents(_)
TransitiveDependents(s) ==
  Dependents(s) \cup UNION {TransitiveDependents(d) : d \in Dependents(s)}

Last(p) == p[Len(p)]

\* the chains of services in which each one is related to the next
Chains(table) ==
  {p \in UNION {[1..n -> Services] : n \in 1..Cardinality(Services)} :
     \A i \in 1..(Len(p) - 1) : p[i + 1] \in table[p[i]]}

\* One startService call per root service and per recursion step: a call is
\* named by the chain of services from the root call down to it.
StartCalls == Chains(Dependencies)
\* Likewise for stopService, recursing over dependents.
StopCalls == Chains(DependentsTable)

\* the calls a call awaits in its Promise.all
StartChildren == [p \in StartCalls |-> {Append(p, d) : d \in Dependencies[Last(p)]}]
StopChildren == [p \in StopCalls |-> {Append(p, d) : d \in Dependents(Last(p))}]

VARIABLES
  stopping,         \* CompositeService.stopping
  cause,            \* the message logged by logger.error in die
  errorLogs,        \* number of logger.error(message) in die
  stoppingLogs,     \* number of 'Stopping composite service...'
  stoppedLogs,      \* number of 'Stopped composite service'
  startedLogs,      \* number of 'Started composite service'
  exits,            \* number of process.exit calls
  exitCode,         \* argument of process.exit
  startCall,        \* position of each startService call
  startGot,         \* what service.start() returned to each startService call
  stopCall,         \* position of each stopService call
  startResult,      \* ComposedService.startResult
  stopResult,       \* ComposedService.stopResult
  ready,            \* ComposedService.ready
  procs,            \* every ServiceProcess created for the service; the last is this.process
  crashes,          \* ComposedService.crashes
  handler,          \* the running handleCrash of the service
  readyCalls,       \* number of config.ready evaluations
  endCalls          \* number of ServiceProcess.end() that sent a termination request

orch == <<stopping, cause, errorLogs, stoppingLogs, stopCall>>
vars == <<stopping, cause, errorLogs, stoppingLogs, stoppedLogs,
          startedLogs, exits, exitCode, startCall, startGot, stopCall,
          startResult, stopResult, ready, procs, crashes, handler, readyCalls,
          endCalls>>

\* the crash hook of each service: web has a user-written hook, the others
\* the default one
OnCrashConfig == [s \in Services |-> IF s = "web" THEN "custom" ELSE "default"]

\* handleCrash: where it is ("none" | "hook" | "delay" | "halted" after die),
\* and its delay timer ("none" | "running" | "expired")
NoHandler == [pc |-> "none", timer |-> "none"]

Init ==
  /\ stopping = FALSE
  /\ cause = <<"none", "">>
  /\ errorLogs = 0
  /\ stoppingLogs = 0
  /\ stoppedLogs = 0
  /\ startedLogs = 0
  /\ exits = 0
  /\ exitCode = -1
  /\ startCall = [p \in StartCalls |-> "deps"]
  /\ startGot = [p \in StartCalls |-> "none"]
  /\ stopCall = [p \in StopCalls |-> "idle"]
  /\ startResult = [s \in Services |-> "unset"]
  /\ stopResult = [s \in Services |-> "unset"]
  /\ ready = [s \in Services |-> "unset"]
  /\ procs = [s \in Services |-> <<>>]
  /\ crashes = [s \in Services |-> <<>>]
  /\ handler = [s \in Services |-> NoHandler]
  /\ readyCalls = [s \in Services |-> 0]
  /\ endCalls = [s \in Services |-> 0]

\* ---------------------------------------------------------------------------
\* ServiceProcess (./ServiceProcess is not among the sources): one OS process.
\*   started: "pending" | "ok" | "error"      the 'started' outcome
\*   ended:   the process has exited (or never ran, after a spawn error)
\*   endCalled: end() was invoked on it
\* ---------------------------------------------------------------------------
\*   by: the caller of startProcess that created it ("start" | "handleCrash")
NewProcess(caller) ==
  [started |-> "pending", ended |-> FALSE, endCalled |-> FALSE, by |-> caller]

isEnded(proc) == proc.ended

HasProcess(s) == Len(procs[s]) > 0
CurrentProcess(s) == procs[s][Len(procs[s])]

TotalCrashes == Len(crashes["api"]) + Len(crashes["web"]) + Len(crashes["gateway"])

\* faulty variant: a check that this.ready exists
isDefined(promise) == promise # "unset"

\* isResolved(promise): true exactly when the promise is already fulfilled
isResolved(promise) == promise = "resolved"

\* config.onCrash when the user gave none: restart if the service had started
defaultOnCrash(isServiceReady) == IF isServiceReady THEN "ok" ELSE "throw"

\* ---------------------------------------------------------------------------
\* CompositeService.die
\* ---------------------------------------------------------------------------
\* faulty variant: die without the stopping guard
dieUnguarded(message) ==
  /\ stopping' = TRUE
  /\ cause' = message
  /\ errorLogs' = errorLogs + 1
  /\ stoppingLogs' = stoppingLogs + 1
  /\ stopCall' = [p \in StopCalls |-> "deps"]

die(message) ==
  IF ~stopping
    THEN /\ stopping' = TRUE
         /\ cause' = message
         /\ errorLogs' = errorLogs + 1
         /\ stoppingLogs' = stoppingLogs + 1
         \* every stopService call runs up to its first await
         /\ stopCall' = [p \in StopCalls |-> "deps"]
    ELSE UNCHANGED orch

\* ---------------------------------------------------------------------------
\* ComposedService.startProcess / defineReady / start / stop
\* ---------------------------------------------------------------------------
startProcess(s, caller) == procs' = [procs EXCEPT ![s] = Append(@, NewProcess(caller))]

defineReady(s) ==
  /\ ready' = [ready EXCEPT ![s] = "pending"]
  /\ readyCalls' = [readyCalls EXCEPT ![s] = @ + 1]

\* the value start() returns: the memoized promise, or undefined when start()
\* is refused after stop() and nothing was ever started
startReturn(s) ==
  IF stopResult[s] # "unset" /\ startResult[s] = "unset" THEN "undefined" ELSE "promise"

\* faulty variant: start without the startResult memo
startUnmemoized(s) ==
  IF stopResult[s] # "unset"
    THEN UNCHANGED <<startResult, ready, readyCalls, procs>>
    ELSE /\ defineReady(s)
         /\ startProcess(s, "start")
         /\ startResult' = [startResult EXCEPT ![s] = "pending"]

start(s) ==
  IF stopResult[s] # "unset"
    THEN UNCHANGED <<startResult, ready, readyCalls, procs>>
    ELSE IF startResult[s] = "unset"
      THEN /\ defineReady(s)
           /\ startProcess(s, "start")
           /\ startResult' = [startResult EXCEPT ![s] = "pending"]
      ELSE UNCHANGED <<startResult, ready, readyCalls, procs>>

\* faulty variant: stop without the stopResult memo
stopUnmemoized(s) ==
  IF ~HasProcess(s) \/ isEnded(CurrentProcess(s))
    THEN /\ stopResult' = [stopResult EXCEPT ![s] = "resolved"]
         /\ UNCHANGED <<procs, endCalls>>
    ELSE /\ stopResult' = [stopResult EXCEPT ![s] = "pending"]
         /\ procs' = [procs EXCEPT ![s][Len(procs[s])].endCalled = TRUE]
         /\ endCalls' = [endCalls EXCEPT ![s] = @ + 1]

stop(s) ==
  IF stopResult[s] = "unset"
    THEN IF ~HasProcess(s) \/ isEnded(CurrentProcess(s))
      THEN /\ stopResult' = [stopResult EXCEPT ![s] = "resolved"]
           /\ UNCHANGED <<procs, endCalls>>
      ELSE /\ stopResult' = [stopResult EXCEPT ![s] = "pending"]
           /\ procs' = [procs EXCEPT ![s][Len(procs[s])].endCalled = TRUE]
           /\ endCalls' = [endCalls EXCEPT ![s] = @ + 1]
    ELSE UNCHANGED <<stopResult, procs, endCalls>>

\* ---------------------------------------------------------------------------
\* Promise continuations (urgent steps): when each is runnable
\* ---------------------------------------------------------------------------
Running == exits = 0

\* faulty variant: startService that does not await its dependencies
CanStartServiceContinueNoAwait(p) == startCall[p] = "deps"

CanStartServiceContinue(p) ==
  /\ startCall[p] = "deps"
  /\ \A c \in StartChildren[p] : startCall[c] = "done"

\* faulty variant: startService that does not await service.start()
CanStartServiceReturnNoAwait(p) == startCall[p] = "start"

CanStartServiceReturn(p) ==
  /\ startCall[p] = "start"
  /\ startGot[p] = "undefined" \/ startResult[Last(p)] = "resolved"

CanStartedComposite ==
  /\ startedLogs = 0
  /\ \A s \in Services : startCall[<<s>>] = "done"

\* faulty variant: a start outcome that waits for this.ready only
CanStartResultResolveReadyOnly(s) ==
  /\ startResult[s] = "pending"
  /\ ready[s] = "resolved"

CanStartResultResolve(s) ==
  /\ startResult[s] = "pending"
  /\ procs[s][1].started = "ok"
  /\ ready[s] = "resolved"

\* faulty variant: stopService that does not await its dependents
CanStopServiceContinueNoAwait(p) == stopCall[p] = "deps"

CanStopServiceContinue(p) ==
  /\ stopCall[p] = "deps"
  /\ \A c \in StopChildren[p] : stopCall[c] = "done"

\* faulty variant: stopService that does not await service.stop()
CanStopServiceReturnNoAwait(p) == stopCall[p] = "stop"

CanStopServiceReturn(p) ==
  /\ stopCall[p] = "stop"
  /\ stopResult[Last(p)] = "resolved"

\* faulty variant: a stop outcome that does not wait for the exit
CanStopResultResolveNoExit(s) == stopResult[s] = "pending"

CanStopResultResolve(s) ==
  /\ stopResult[s] = "pending"
  /\ \E i \in DOMAIN procs[s] : procs[s][i].endCalled /\ procs[s][i].ended

CanStoppedComposite ==
  /\ stoppedLogs = 0
  /\ \A s \in Services : stopCall[<<s>>] = "done"

\* faulty variant: handleCrash that does not await the delay
CanRestartWithoutDelay(s) == handler[s].pc = "delay"

\* faulty variant: handleCrash that goes on after die
CanRestartAfterHalt(s) ==
  /\ handler[s].pc \in {"delay", "halted"}
  /\ handler[s].timer = "expired"

CanRestartAfterDelay(s) ==
  /\ handler[s].pc = "delay"
  /\ handler[s].timer = "expired"

\* the queue order of the runnable continuations
ServiceNo == [s \in Services |-> CASE s = "api" -> 1 [] s = "web" -> 2 [] s = "gateway" -> 3]
CallNo(p) ==
  LET digit(i) == IF i <= Len(p) THEN ServiceNo[p[i]] ELSE 0
  IN  16 * digit(1) + 4 * digit(2) + digit(3)

Queue ==
  {100 + ServiceNo[s] : s \in {x \in Services : CanStartResultResolve(x)}}
  \cup {200 + CallNo(p) : p \in {x \in StartCalls : CanStartServiceReturn(x)}}
  \cup {300 + CallNo(p) : p \in {x \in StartCalls : CanStartServiceContinue(x)}}
  \cup (IF CanStartedComposite THEN {400} ELSE {})
  \cup {500 + ServiceNo[s] : s \in {x \in Services : CanStopResultResolve(x)}}
  \cup {600 + CallNo(p) : p \in {x \in StopCalls : CanStopServiceReturn(x)}}
  \cup {700 + CallNo(p) : p \in {x \in StopCalls : CanStopServiceContinue(x)}}
  \cup {800 + ServiceNo[s] : s \in {x \in Services : CanRestartAfterDelay(x)}}
  \cup (IF CanStoppedComposite THEN {900} ELSE {})

\* the runnable continuation with number n is the next one to run
Turn(n) == Running /\ \A m \in Queue : n <= m

\* an event handler runs only when no continuation is runnable
Idle == Running /\ Queue = {}

\* faulty variant: startService without the stopping check
startServiceContinueUnchecked(p) ==
  /\ CanStartServiceContinue(p) /\ Turn(300 + CallNo(p))
  /\ startCall' = [startCall EXCEPT ![p] = "start"]
  /\ startGot' = [startGot EXCEPT ![p] = startReturn(Last(p))]
  /\ start(Last(p))
  /\ UNCHANGED <<orch, stoppedLogs, startedLogs, exits, exitCode,
                 stopResult, crashes, handler, endCalls>>

\* startService after `await Promise.all(dependencies...)`
startServiceContinue(p) ==
  /\ CanStartServiceContinue(p) /\ Turn(300 + CallNo(p))
  /\ IF stopping
       THEN /\ startCall' = [startCall EXCEPT ![p] = "parked"]
            /\ UNCHANGED <<startGot, startResult, ready, readyCalls, procs>>
       ELSE /\ startCall' = [startCall EXCEPT ![p] = "start"]
            /\ startGot' = [startGot EXCEPT ![p] = startReturn(Last(p))]
            /\ start(Last(p))
  /\ UNCHANGED <<orch, stoppedLogs, startedLogs, exits, exitCode,
                 stopResult, crashes, handler, endCalls>>

\* startService after `await service.start()`
startServiceReturn(p) ==
  /\ CanStartServiceReturn(p) /\ Turn(200 + CallNo(p))
  /\ startCall' = [startCall EXCEPT ![p] = "done"]
  /\ UNCHANGED <<orch, stoppedLogs, startedLogs, exits, exitCode,
                 startGot, startResult, stopResult, ready, procs, crashes, handler,
                 readyCalls, endCalls>>

\* constructor: Promise.all(startService...).then(log 'Started composite service')
startedComposite ==
  /\ CanStartedComposite /\ Turn(400)
  /\ startedLogs' = startedLogs + 1
  /\ UNCHANGED <<orch, stoppedLogs, exits, exitCode, startCall,
                 startGot, startResult, stopResult, ready, procs, crashes, handler,
                 readyCalls, endCalls>>

\* start: startProcess().then(() => this.ready).then(log 'Started service')
startResultResolve(s) ==
  /\ CanStartResultResolve(s) /\ Turn(100 + ServiceNo[s])
  /\ startResult' = [startResult EXCEPT ![s] = "resolved"]
  /\ UNCHANGED <<orch, stoppedLogs, startedLogs, exits, exitCode,
                 startCall, startGot, stopResult, ready, procs, crashes, handler,
                 readyCalls, endCalls>>

\* stopService after `await Promise.all(dependents...)`
stopServiceContinue(p) ==
  /\ CanStopServiceContinue(p) /\ Turn(700 + CallNo(p))
  /\ stopCall' = [stopCall EXCEPT ![p] = "stop"]
  /\ stop(Last(p))
  /\ UNCHANGED <<stopping, cause, errorLogs, stoppingLogs, stoppedLogs,
                 startedLogs, exits, exitCode, startCall, startGot,
                 startResult, ready, crashes, handler, readyCalls>>

\* stopService after `await service.stop()`
stopServiceReturn(p) ==
  /\ CanStopServiceReturn(p) /\ Turn(600 + CallNo(p))
  /\ stopCall' = [stopCall EXCEPT ![p] = "done"]
  /\ UNCHANGED <<stopping, cause, errorLogs, stoppingLogs, stoppedLogs,
                 startedLogs, exits, exitCode, startCall, startGot,
                 startResult, stopResult, ready, procs, crashes, handler,
                 readyCalls, endCalls>>

\* stop: this.process.end().then(log 'Stopped service')
stopResultResolve(s) ==
  /\ CanStopResultResolve(s) /\ Turn(500 + ServiceNo[s])
  /\ stopResult' = [stopResult EXCEPT ![s] = "resolved"]
  /\ UNCHANGED <<orch, stoppedLogs, startedLogs, exits, exitCode,
                 startCall, startGot, startResult, ready, procs, crashes, handler,
                 readyCalls, endCalls>>

\* die: Promise.all(stopService...).then(log 'Stopped composite service')
\*        .then(() => process.exit(1))
stoppedComposite ==
  /\ CanStoppedComposite /\ Turn(900)
  /\ stoppedLogs' = stoppedLogs + 1
  /\ exits' = exits + 1
  /\ exitCode' = 1
  /\ UNCHANGED <<orch, startedLogs, startCall, startGot,
                 startResult, stopResult, ready, procs, crashes, handler,
                 readyCalls, endCalls>>

\* faulty variant: handleCrash without the stopResult check after the delay
restartAfterDelayUnchecked(s) ==
  /\ CanRestartAfterDelay(s) /\ Turn(800 + ServiceNo[s])
  /\ handler' = [handler EXCEPT ![s] = NoHandler]
  /\ startProcess(s, "handleCrash")
  /\ UNCHANGED <<orch, stoppedLogs, startedLogs, exits, exitCode,
                 startCall, startGot, startResult, stopResult, ready, crashes,
                 readyCalls, endCalls>>

\* handleCrash after `await delay`: the second stopResult check, then
\* log 'Restarting service' and startProcess()
restartAfterDelay(s) ==
  /\ CanRestartAfterDelay(s) /\ Turn(800 + ServiceNo[s])
  /\ handler' = [handler EXCEPT ![s] = NoHandler]
  /\ IF stopResult[s] # "unset"
       THEN UNCHANGED procs
       ELSE startProcess(s, "handleCrash")
  /\ UNCHANGED <<orch, stoppedLogs, startedLogs, exits, exitCode,
                 startCall, startGot, startResult, stopResult, ready, crashes,
                 readyCalls, endCalls>>

\* ---------------------------------------------------------------------------
\* ComposedService.handleCrash
\* ---------------------------------------------------------------------------
\* handleCrash after `await this.config.onCrash(ctx)` returned normally: the
\* first stopResult check, then `await delay`
afterOnCrash(s) ==
  IF stopResult[s] # "unset"
    THEN handler' = [handler EXCEPT ![s] = NoHandler]
    ELSE handler' = [handler EXCEPT ![s].pc = "delay"]

\* faulty variant: a supervisor for which every crash is fatal
handleCrashFatal(s, i) ==
  IF stopResult[s] # "unset"
    THEN UNCHANGED <<crashes, handler, orch>>
    ELSE /\ crashes' = [crashes EXCEPT ![s] =
                          Append(@, [proc |-> i, isServiceReady |-> isResolved(ready[s]),
                                     ctxCrashes |-> Len(@) + 1])]
         /\ die(<<"crash", s>>)
         /\ UNCHANGED handler

\* handleCrash(proc) for the i-th process of s, up to its first wait on
\* something outside (the user's hook, or the delay timer)
\* A crash is recorded with the handle that crashed and with what the hook
\* was given: ctx.isServiceReady, and the length of ctx.crashes (this.crashes
\* after the push).
handleCrash(s, i) ==
  IF stopResult[s] # "unset"
    THEN UNCHANGED <<crashes, handler, orch>>
    ELSE LET isServiceReady == isResolved(ready[s]) IN
         /\ crashes' = [crashes EXCEPT ![s] =
                          Append(@, [proc |-> i, isServiceReady |-> isServiceReady,
                                     ctxCrashes |-> Len(@) + 1])]
         /\ IF OnCrashConfig[s] = "default"
              THEN IF defaultOnCrash(isServiceReady) = "throw"
                     THEN /\ die(<<"onCrash", s>>)
                          /\ handler' = [handler EXCEPT ![s] =
                                           [pc |-> "halted", timer |-> "running"]]
                     ELSE /\ handler' = [handler EXCEPT ![s] =
                                           [pc |-> "delay", timer |-> "running"]]
                          /\ UNCHANGED orch
              ELSE /\ handler' = [handler EXCEPT ![s] =
                                    [pc |-> "hook", timer |-> "running"]]
                   /\ UNCHANGED orch

\* ---------------------------------------------------------------------------
\* Events
\* ---------------------------------------------------------------------------
\* process.on('SIGINT' | 'SIGTERM'): a signal may arrive any number of times
Signal ==
  /\ Idle
  /\ die(<<"signal", "">>)
  /\ UNCHANGED <<stoppedLogs, startedLogs, exits, exitCode, startCall,
                 startGot, startResult, stopResult, ready, procs, crashes, handler,
                 readyCalls, endCalls>>

\* ServiceProcess.started resolves: startProcess returns
SpawnConfirm(s, i) ==
  /\ i \in DOMAIN procs[s]
  /\ procs[s][i].started = "pending" /\ ~procs[s][i].ended
  /\ Idle
  /\ procs' = [procs EXCEPT ![s][i].started = "ok"]
  /\ UNCHANGED <<orch, stoppedLogs, startedLogs, exits, exitCode,
                 startCall, startGot, startResult, stopResult, ready, crashes,
                 handler, readyCalls, endCalls>>

\* ServiceProcess.started rejects: startProcess calls die and halts
SpawnFail(s, i) ==
  /\ i \in DOMAIN procs[s]
  /\ procs[s][i].started = "pending" /\ ~procs[s][i].ended
  /\ Idle
  /\ procs' = [procs EXCEPT ![s][i].started = "error", ![s][i].ended = TRUE]
  /\ die(<<"startProcess", s>>)
  /\ UNCHANGED <<stoppedLogs, startedLogs, exits, exitCode,
                 startCall, startGot, startResult, stopResult, ready, crashes,
                 handler, readyCalls, endCalls>>

\* config.ready(ctx) resolves
ReadyResolve(s) ==
  /\ ready[s] = "pending" /\ Idle
  /\ ready' = [ready EXCEPT ![s] = "resolved"]
  /\ UNCHANGED <<orch, stoppedLogs, startedLogs, exits, exitCode,
                 startCall, startGot, startResult, stopResult, procs, crashes,
                 handler, readyCalls, endCalls>>

\* config.ready(ctx) throws or rejects: defineReady's catch calls die, and
\* this.ready stays pending for ever
ReadyFail(s) ==
  /\ ready[s] = "pending" /\ Idle
  /\ ready' = [ready EXCEPT ![s] = "failed"]
  /\ die(<<"ready", s>>)
  /\ UNCHANGED <<stoppedLogs, startedLogs, exits, exitCode,
                 startCall, startGot, startResult, stopResult, procs, crashes,
                 handler, readyCalls, endCalls>>

\* the i-th process of s exits; without end() having been called on it the
\* exit is a crash and the process calls its onCrash callback
ProcessExit(s, i) ==
  /\ i \in DOMAIN procs[s]
  /\ ~procs[s][i].ended
  /\ procs[s][i].endCalled \/ TotalCrashes < MaxCrashes
  /\ Idle
  /\ procs' = [procs EXCEPT ![s][i].ended = TRUE]
  /\ IF procs[s][i].endCalled
       THEN UNCHANGED <<crashes, handler, orch>>
       ELSE handleCrash(s, i)
  /\ UNCHANGED <<stoppedLogs, startedLogs, exits, exitCode,
                 startCall, startGot, startResult, stopResult, ready, readyCalls,
                 endCalls>>

\* the user's onCrash hook resolves
OnCrashResolve(s) ==
  /\ handler[s].pc = "hook" /\ Idle
  /\ afterOnCrash(s)
  /\ UNCHANGED <<orch, stoppedLogs, startedLogs, exits, exitCode,
                 startCall, startGot, startResult, stopResult, ready, procs, crashes,
                 readyCalls, endCalls>>

\* the user's onCrash hook throws or rejects: handleCrash calls die and halts
OnCrashFail(s) ==
  /\ handler[s].pc = "hook" /\ Idle
  /\ handler' = [handler EXCEPT ![s].pc = "halted"]
  /\ die(<<"onCrash", s>>)
  /\ UNCHANGED <<stoppedLogs, startedLogs, exits, exitCode,
                 startCall, startGot, startResult, stopResult, ready, procs, crashes,
                 readyCalls, endCalls>>

\* setTimeout(resolve, minimumRestartDelay) fires
DelayExpire(s) ==
  /\ handler[s].timer = "running" /\ Idle
  /\ handler' = [handler EXCEPT ![s].timer = "expired"]
  /\ UNCHANGED <<orch, stoppedLogs, startedLogs, exits, exitCode,
                 startCall, startGot, startResult, stopResult, ready, procs, crashes,
                 readyCalls, endCalls>>

ProcIndex == 1..(MaxCrashes + 1)

Next ==
  \/ \E p \in StartCalls : startServiceContinue(p)
  \/ \E p \in StartCalls : startServiceReturn(p)
  \/ startedComposite
  \/ \E s \in Services : startResultResolve(s)
  \/ \E p \in StopCalls : stopServiceContinue(p)
  \/ \E p \in StopCalls : stopServiceReturn(p)
  \/ \E s \in Services : stopResultResolve(s)
  \/ stoppedComposite
  \/ \E s \in Services : restartAfterDelay(s)
  \/ Signal
  \/ \E s \in Services, i \in ProcIndex : SpawnConfirm(s, i)
  \/ \E s \in Services, i \in ProcIndex : SpawnFail(s, i)
  \/ \E s \in Services : ReadyResolve(s)
  \/ \E s \in Services : ReadyFail(s)
  \/ \E s \in Services, i \in ProcIndex : ProcessExit(s, i)
  \/ \E s \in Services : OnCrashResolve(s)
  \/ \E s \in Services : OnCrashFail(s)
  \/ \E s \in Services : DelayExpire(s)

Spec == Init /\ [][Next]_vars

TypeOK ==
  /\ stopping \in BOOLEAN
  /\ \A s \in Services :
       /\ startResult[s] \in {"unset", "pending", "resolved"}
       /\ stopResult[s] \in {"unset", "pending", "resolved"}
       /\ ready[s] \in {"unset", "pending", "resolved", "failed"}
       /\ Len(procs[s]) <= MaxCrashes + 1
       /\ handler[s].pc \in {"none", "hook", "delay", "halted"}

\* Promise continuations are run whenever there are some, and timers fire
\* while the supervising process is alive
Continuations ==
  \/ \E p \in StartCalls : startServiceContinue(p) \/ startServiceReturn(p)
  \/ \E p \in StopCalls : stopServiceContinue(p) \/ stopServiceReturn(p)
  \/ \E s \in Services : startResultResolve(s) \/ stopResultResolve(s) \/ restartAfterDelay(s)
  \/ startedComposite
  \/ stoppedComposite

LiveSpec ==
  /\ Init /\ [][Next]_vars
  /\ WF_vars(Continuations)
  /\ \A s \in Services : WF_vars(DelayExpire(s))

\* a process on which end() was called exits
TerminationExit(s) ==
  \E i \in ProcIndex : ProcessExit(s, i) /\ procs[s][i].endCalled

\* LiveSpec for child processes that all obey a termination request
ShutdownSpec ==
  /\ LiveSpec
  /\ \A s \in Services : WF_vars(TerminationExit(s))

\* LiveSpec for processes whose spawn is confirmed when it can be and
\* readiness predicates that settle
StartupSpec ==
  /\ LiveSpec
  /\ \A s \in Services : WF_vars(\E i \in ProcIndex : SpawnConfirm(s, i))
  /\ \A s \in Services : WF_vars(ReadyResolve(s))

\* ---------------------------------------------------------------------------
\* Properties
\* ---------------------------------------------------------------------------
Started(s) == startResult[s] = "resolved"
StartInvoked(s) == startResult[s] # "unset"
StopInvoked(s) == stopResult[s] # "unset"
LastCrash(s) == crashes[s][Len(crashes[s])]

\* the number of die calls made so far by the supervisors: one per failed
\* spawn, failed readiness predicate and failed crash hook
DieCalls ==
  Cardinality({s \in Services : ready[s] = "failed"})
  + Cardinality({s \in Services : handler[s].pc = "halted"})
  + Cardinality({s \in Services : \E i \in DOMAIN procs[s] : procs[s][i].started = "error"})

FatalOccurred ==
  \E s \in Services :
    \/ ready[s] = "failed"
    \/ handler[s].pc = "halted"
    \/ \E i \in DOMAIN procs[s] : procs[s][i].started = "error"

\* C1: a service's start() (its 'Starting service' log and its spawn) has
\* happened only if the start outcome of each of its dependencies has
\* completed: the dependency's first process was confirmed spawned and its
\* readiness resolved.
C1_StartAfterDependencies ==
  \A s \in Services :
    StartInvoked(s) =>
      \A d \in Dependencies[s] :
        /\ Started(d)
        /\ procs[d][1].started = "ok"
        /\ ready[d] = "resolved"

C1_Witness ==
  /\ StartInvoked("gateway")
  /\ Len(procs["gateway"]) = 1

\* C2: stop() has been invoked on a service, and a termination request has
\* reached its process, only if the stop outcome of every direct and
\* transitive dependent has completed.
C2_StopAfterDependents ==
  \A s \in Services :
    (StopInvoked(s) \/ \E i \in DOMAIN procs[s] : procs[s][i].endCalled) =>
      \A d \in TransitiveDependents(s) : stopResult[d] = "resolved"

C2_Witness ==
  /\ stopResult["api"] = "pending"
  /\ endCalls["api"] = 1
  /\ endCalls["gateway"] = 1
  /\ endCalls["web"] = 1

\* C3: once the stopping flag is set, no step creates a process for any
\* service.
C3_NoSpawnOnceStopping ==
  [][stopping => \A s \in Services : Len(procs'[s]) = Len(procs[s])]_vars

\* C4: a service whose process crashed before its readiness had resolved is
\* never given another process.
C4_PreReadyCrashNeverRestarted ==
  \A s \in Services :
    \A k \in DOMAIN crashes[s] :
      ~crashes[s][k].isServiceReady => Len(procs[s]) = crashes[s][k].proc

\* C5: once stop() has been invoked on a service, no step creates a process
\* for it.
C5_NoRestartAfterStop ==
  [][\A s \in Services : StopInvoked(s) => Len(procs'[s]) = Len(procs[s])]_vars

\* stop() was invoked while the hook or the delay of a crash was pending,
\* and the crash handling then ended without a restart
C5_Witness ==
  \E s \in Services :
    /\ StopInvoked(s)
    /\ Len(crashes[s]) > 0
    /\ LastCrash(s).proc = Len(procs[s])
    /\ handler[s].pc = "none"

\* C6: however often die is called, there is one shutdown sequence: the cause
\* and 'Stopping composite service...' are logged once, 'Stopped composite
\* service' and the exit happen at most once, and a die call made while
\* stopping changes nothing of the orchestrator's state.
C6_DieOnce ==
  /\ [](/\ errorLogs = (IF stopping THEN 1 ELSE 0)
        /\ stoppingLogs = (IF stopping THEN 1 ELSE 0)
        /\ stoppedLogs <= 1
        /\ exits <= 1)
  /\ [][(stopping /\ DieCalls' > DieCalls) => UNCHANGED orch]_vars
  /\ [][stopping => cause' = cause]_vars

C6_Witness ==
  /\ DieCalls >= 2
  /\ exits = 1

\* C7: however many startService calls invoke start() on a service, the
\* service gets one process from start() and one readiness evaluation, every
\* caller gets the same start outcome and returns only once it has completed.
C7_StartIdempotent ==
  \A s \in Services :
    /\ Cardinality({i \in DOMAIN procs[s] : procs[s][i].by = "start"})
         = (IF StartInvoked(s) THEN 1 ELSE 0)
    /\ readyCalls[s] = (IF StartInvoked(s) THEN 1 ELSE 0)
    /\ \A p \in StartCalls :
         Last(p) = s =>
           /\ startCall[p] \in {"start", "done"} => startGot[p] = "promise"
           /\ startCall[p] = "done" => Started(s)

C7_Witness ==
  /\ Cardinality({p \in StartCalls : Last(p) = "api" /\ startCall[p] = "done"}) >= 2
  /\ Len(procs["api"]) = 1

\* C8: however many stopService calls invoke stop() on a service, at most one
\* termination request is sent to its process, and every caller returns only
\* once the one stop outcome has completed.
C8_StopIdempotent ==
  \A s \in Services :
    /\ endCalls[s] <= 1
    /\ Cardinality({i \in DOMAIN procs[s] : procs[s][i].endCalled}) = endCalls[s]
    /\ \A p \in StopCalls :
         Last(p) = s =>
           /\ stopCall[p] \in {"stop", "done"} => StopInvoked(s)
           /\ stopCall[p] = "done" => stopResult[s] = "resolved"

C8_Witness ==
  /\ Cardinality({p \in StopCalls : Last(p) = "gateway" /\ stopCall[p] = "done"}) >= 2
  /\ endCalls["gateway"] = 1

\* C9: after a crash of a service that was ready, with the default hook, the
\* wait for the restart delay ends unless stop() is invoked on the service;
\* it ends, when no stop() was invoked, by giving the service a new process;
\* and no restart happens before the delay timer started at the crash has
\* expired.
C9_RestartAfterDelay ==
  /\ \A s \in {x \in Services : OnCrashConfig[x] = "default"} :
       (handler[s].pc = "delay" /\ LastCrash(s).isServiceReady)
         ~> (handler[s].pc # "delay" \/ StopInvoked(s))
  /\ [][\A s \in Services :
          (handler[s].pc = "delay" /\ handler'[s].pc # "delay" /\ ~StopInvoked(s))
            => Len(procs'[s]) = Len(procs[s]) + 1]_vars
  /\ [][\A s \in Services :
          (Len(procs[s]) > 0 /\ Len(procs'[s]) > Len(procs[s]))
            => handler[s].timer = "expired"]_vars

C9_Witness ==
  \E s \in Services :
    /\ OnCrashConfig[s] = "default"
    /\ Len(crashes[s]) = 1
    /\ Len(procs[s]) = 2
    /\ ~StopInvoked(s)

\* C10: the exit status is 0 when the shutdown was caused by a signal and no
\* fatal condition occurred, and 1 otherwise.
C10_ExitCode ==
  exits > 0 =>
    exitCode = (IF cause[1] = "signal" /\ ~FatalOccurred THEN 0 ELSE 1)

\* C11: when every process that is sent a termination request exits, a set
\* stopping flag leads to the exit of the composite process with the stop
\* outcome of every service completed; and in no state has the exit happened
\* while the stop outcome of some service is unset or pending.
C11_ShutdownCompletes ==
  /\ stopping ~> (exits = 1 /\ \A s \in Services : stopResult[s] = "resolved")
  /\ [](exits > 0 => \A s \in Services : stopResult[s] = "resolved")

\* the exit happened after processes were sent termination requests
C11_Witness ==
  /\ exits = 1
  /\ \A s \in Services : endCalls[s] = 1

\* C12: a service whose start() was invoked and whose readiness had not
\* resolved in a state where the stopping flag is set never has its start
\* outcome completed ('Started service') from then on, and 'Started composite
\* service' is never logged from then on.
C12_InFlightNeverStarted ==
  \A s \in Services :
    [](stopping /\ startResult[s] = "pending" /\ ready[s] # "resolved"
         => [](startResult[s] # "resolved" /\ startedLogs = 0))

\* every process that has ended had its spawn confirmed before
EverySpawnSucceeds ==
  \A s \in Services :
    \A i \in DOMAIN procs[s] : procs[s][i].ended => procs[s][i].started = "ok"

\* C13: in a run where no spawn fails, spawns are confirmed, readiness
\* predicates settle and no shutdown is ever triggered, eventually every
\* service is started and 'Started composite service' is logged; and in no
\* state is it logged while the start outcome of some service is incomplete.
C13_CompositeStarts ==
  /\ ([]~stopping /\ []EverySpawnSucceeds)
       => <>(startedLogs = 1 /\ \A s \in Services : Started(s))
  /\ [](startedLogs > 0 => \A s \in Services : Started(s))

C13_Witness ==
  /\ startedLogs = 1
  /\ ~stopping
  /\ \A s \in Services : Started(s) /\ procs[s][1].started = "ok"

\* the supervisor state of a service
Supervisor(s) ==
  <<startResult[s], stopResult[s], ready[s], procs[s], crashes[s], handler[s],
    readyCalls[s], endCalls[s]>>

C15_ParkedForever ==
  /\ [](\A p \in StartCalls :
         startCall[p] = "parked" =>
           ~StartInvoked(Last(p)) /\ ~HasProcess(Last(p)))
  /\ [][\A p \in StartCalls :
          startCall[p] = "parked" => startCall'[p] = "parked"]_vars
  /\ [][\A p \in StartCalls :
          (stopping /\ startCall[p] = "deps") => startCall'[p] \in {"deps", "parked"}]_vars

\* web's dependency api started, then the shutdown began before web's own
\* startService call went on, and the composite has exited
C15_Witness ==
  /\ startCall[<<"web">>] = "parked"
  /\ Started("api")
  /\ exits = 1

\* C16: every process of a service, the first and each restarted one, comes
\* with its own evaluation of the readiness predicate, and a crash is
\* classified as ready only by the readiness evaluated for the process that
\* crashed.
C16_RestartRerunsReadiness ==
  \A s \in Services :
    /\ readyCalls[s] = Len(procs[s])
    /\ \A k \in DOMAIN crashes[s] :
         crashes[s][k].isServiceReady => readyCalls[s] >= crashes[s][k].proc

\* a spawn of s failed, or its readiness predicate failed
StartFailed(s) ==
  \/ ready[s] = "failed"
  \/ \E i \in DOMAIN procs[s] : procs[s][i].started = "error"

\* C17: once a spawn of a service or its readiness predicate has failed
\* while its start outcome was not complete, die has been called (stopping is
\* set), the start outcome never completes, and start() is never invoked on
\* a direct or transitive dependent.
C17_FailedStartNeverCompletes ==
  \A s \in Services :
    [](StartFailed(s) /\ ~Started(s)
         => /\ stopping
            /\ [](/\ ~Started(s)
                  /\ \A d \in TransitiveDependents(s) : ~StartInvoked(d)))

\* C18: when the hook of a crash has failed, die has been called (stopping
\* is set), the crashed process is still the last process of the service, and
\* the crash handling stays halted and creates no process, whether or not
\* its delay timer has expired.
C18_HookFailureHalts ==
  /\ [](\A s \in Services :
         handler[s].pc = "halted" =>
           stopping /\ Len(procs[s]) = LastCrash(s).proc)
  /\ [][\A s \in Services :
          handler[s].pc = "halted" =>
            handler'[s].pc = "halted" /\ Len(procs'[s]) = Len(procs[s])]_vars

\* the user's hook failed and the delay timer of that crash has expired
C18_Witness ==
  \E s \in Services :
    /\ OnCrashConfig[s] = "custom"
    /\ handler[s] = [pc |-> "halted", timer |-> "expired"]
    /\ Len(procs[s]) = 1

\* the processes of s that have not exited
Live(s) == {i \in DOMAIN procs[s] : ~isEnded(procs[s][i])}

\* C19: a service has at most one process that has not exited, and it is
\* its last one; a step gives a service a process only as its first one, made
\* by start() when no start outcome existed, or as a restart made by
\* handleCrash after the last process has exited in a recorded crash; and a
\* process that has exited is never touched again.
C19_OneLiveProcess ==
  /\ [](\A s \in Services :
         /\ Cardinality(Live(s)) <= 1
         /\ Live(s) \subseteq {Len(procs[s])})
  /\ [][\A s \in Services :
          Len(procs'[s]) # Len(procs[s]) =>
            /\ Len(procs'[s]) = Len(procs[s]) + 1
            /\ IF Len(procs[s]) = 0
                 THEN /\ startResult[s] = "unset"
                      /\ startResult'[s] = "pending"
                      /\ CurrentProcess(s)'.by = "start"
                 ELSE /\ isEnded(CurrentProcess(s))
                      /\ LastCrash(s).proc = Len(procs[s])
                      /\ CurrentProcess(s)'.by = "handleCrash"]_vars
  /\ [][\A s \in Services :
          \A i \in DOMAIN procs[s] :
            isEnded(procs[s][i]) => procs'[s][i] = procs[s][i]]_vars

\* a restarted service: its first process has exited, its second one runs
C19_Witness ==
  \E s \in Services :
    /\ Len(procs[s]) = 2
    /\ isEnded(procs[s][1])
    /\ Live(s) = {2}
    /\ procs[s][2].started = "ok"

\* C20: the start outcome of a service is complete only if the process made
\* by start() was confirmed spawned and the readiness outcome has resolved,
\* and it completes only in a step before which both were already the case;
\* resolved readiness with an unconfirmed spawn leaves it pending.
C20_StartedAfterSpawnAndReady ==
  /\ [](\A s \in Services :
         Started(s) => procs[s][1].started = "ok" /\ ready[s] = "resolved")
  /\ [][\A s \in Services :
          (~Started(s) /\ Started(s)') =>
            procs[s][1].started = "ok" /\ ready[s] = "resolved"]_vars

\* readiness has resolved, the spawn is not confirmed, every continuation
\* has run, and the start outcome is still pending
C20_Witness ==
  \E s \in Services :
    /\ ready[s] = "resolved"
    /\ procs[s][1].started = "pending"
    /\ startResult[s] = "pending"
    /\ Idle

\* the step is a crash of the i-th process of s: it exits, other than by
\* failing to spawn, without end() having been called on it
Crash(s, i) ==
  /\ i \in DOMAIN procs[s]
  /\ ~isEnded(procs[s][i]) /\ ~procs[s][i].endCalled
  /\ isEnded(procs[s][i])' /\ procs'[s][i].started # "error"

\* C21: a step in which a process of s crashes while stop() has not been
\* invoked on s appends one record, for that process, to the crash history of
\* s; in it the hook was given the whole history, ending with this crash, and
\* isServiceReady is true exactly if the readiness of s had resolved before
\* the step (false when it was pending or had failed); every other step
\* leaves the history as it is.
C21_CrashRecord ==
  [][\A s \in Services :
       IF \E i \in DOMAIN procs[s] : Crash(s, i) /\ ~StopInvoked(s)
         THEN \E i \in DOMAIN procs[s] :
                /\ Crash(s, i)
                /\ crashes'[s] =
                     Append(crashes[s],
                            [proc |-> i,
                             isServiceReady |-> (ready[s] = "resolved"),
                             ctxCrashes |-> Len(crashes[s]) + 1])
         ELSE crashes'[s] = crashes[s]]_vars

\* a crash classified as not ready, whose service became ready afterwards
C21_Witness ==
  \E s \in Services :
    /\ Len(crashes[s]) = 1
    /\ ~crashes[s][1].isServiceReady
    /\ ready[s] = "resolved"

\* C22: the step in which stop() is first invoked on s completes the stop
\* outcome at once, sending no termination request and touching no process,
\* if s has no process or its current process has ended; otherwise it sends
\* one termination request, to the current process, and leaves the outcome
\* pending; and a pending stop outcome completes only in a step before which
\* that process had exited.
C22_StopOutcome ==
  /\ [][\A s \in Services :
          (~StopInvoked(s) /\ StopInvoked(s)') =>
            IF ~HasProcess(s) \/ isEnded(CurrentProcess(s))
              THEN /\ stopResult'[s] = "resolved"
                   /\ endCalls'[s] = endCalls[s]
                   /\ procs'[s] = procs[s]
              ELSE /\ stopResult'[s] = "pending"
                   /\ endCalls'[s] = endCalls[s] + 1
                   /\ procs'[s] = [procs[s] EXCEPT ![Len(procs[s])].endCalled = TRUE]]_vars
  /\ [][\A s \in Services :
          (stopResult[s] = "pending" /\ stopResult'[s] # "pending") =>
            /\ stopResult'[s] = "resolved"
            /\ CurrentProcess(s).endCalled /\ isEnded(CurrentProcess(s))]_vars

\* one service was stopped after its process had ended on its own, another
\* by a termination request that its process obeyed
C22_Witness ==
  /\ \E s \in Services :
       /\ stopResult[s] = "resolved" /\ endCalls[s] = 0
       /\ HasProcess(s) /\ CurrentProcess(s).started = "ok"
  /\ \E s \in Services :
       stopResult[s] = "resolved" /\ endCalls[s] = 1

\* the callers of die: the signal handlers, and the supervisors' catch
\* branches for a failed spawn, readiness predicate and crash hook
DieCallers == {"signal", "startProcess", "ready", "onCrash"}

\* C23: the stopping flag is false at first; a step changes it only from
\* false to true, and only as the guarded block of die does: together with
\* the one error log, the 'Stopping composite service...' log and the launch
\* of every stopService call, for a message of one of die's callers; that
\* block runs only while the flag is false; and no other step (start, stop,
\* crash handling that does not call die) changes the flag.
C23_StoppingWriteOnce ==
  /\ ~stopping
  /\ [][stopping => stopping']_vars
  /\ [][stopping' # stopping =>
          /\ errorLogs' = errorLogs + 1
          /\ stoppingLogs' = stoppingLogs + 1
          /\ cause = <<"none", "">> /\ cause'[1] \in DieCallers
          /\ stopCall' = [p \in StopCalls |-> "deps"]]_vars
  /\ [][(errorLogs' # errorLogs \/ stoppingLogs' # stoppingLogs \/ cause' # cause)
          => ~stopping /\ stopping']_vars

\* a signal set the flag, a supervisor called die afterwards, and the
\* shutdown ran to its end
C23_Witness ==
  /\ stopping
  /\ cause[1] = "signal"
  /\ DieCalls >= 1
  /\ exits = 1

\* C24: a startService call goes on to service.start() only in a step
\* before which stop() had not been invoked on that service; stop() has been
\* invoked only if the stopping flag is set; and no startService call has
\* got the undefined result that start() returns for a stopped service that
\* was never started.
C24_NoStartAfterStop ==
  /\ [][\A p \in StartCalls :
          (startCall[p] = "deps" /\ startCall'[p] = "start") =>
            ~StopInvoked(Last(p))]_vars
  /\ [](\A s \in Services : StopInvoked(s) => stopping)
  /\ [](\A p \in StartCalls : startGot[p] # "undefined")

\* stop() was invoked on a service that was never started; a startService
\* call for it resumed afterwards and was parked
C24_Witness ==
  \E s \in Services :
    /\ stopResult[s] = "resolved"
    /\ ~StartInvoked(s)
    /\ \E p \in StartCalls : Last(p) = s /\ startCall[p] = "parked"
    /\ \A p \in StartCalls : Last(p) = s => startCall[p] \in {"deps", "parked"}

\* C25: when process.exit has been called at the end of the shutdown, every
\* process ever made for any service, by start() or by a restart, has exited.
C25_NoLiveChildAtExit ==
  exits > 0 => \A s \in Services : Live(s) = {}

\* the composite has exited; a service had been restarted after a crash and
\* its second process was ended by the termination request of stop()
C25_Witness ==
  /\ exits = 1
  /\ \E s \in Services :
       /\ Len(procs[s]) = 2
       /\ procs[s][2].by = "handleCrash"
       /\ procs[s][2].endCalled

====
